---- MODULE Spec2Model ----
(***************************************************************************)
(* Grat.io (src/grat_io_app.py): scoring and classification engine.        *)
(*                                                                         *)
(* Text is modelled as a sequence of one-character strings, so that        *)
(* str.lower() and the substring test `kw in t` are computed, not assumed. *)
(* Python's None is the marker NoneText where a text is expected.          *)
(***************************************************************************)
EXTENDS Integers, Sequences, FiniteSets, TLC

VARIABLES
    tipo_text,      \* argument of map_tipo_para_criterio
    criterio,       \* its result (NaoCalculado before the call)
    pontos_final,   \* argument of classify_points
    classificacao,  \* its result (NaoCalculado before the call)
    contagens,      \* counts fed to calcula_pontos_positivos_from_summary
    pts,            \* the points it returned (feito: the call was made)
    descontos,      \* table descontos: [rows, seq] (seq: the AUTOINCREMENT counter)
    chamadas,       \* history: the save_descontos calls made so far, in order
    atendimentos,   \* table atendimentos: the rows, in rowid order
    selected_period,\* the period chosen in the selectbox (PyNone: no data yet)
    df_summary,     \* the list built by the last script run: [erro, linhas]
    pc,             \* concurrent saves: where each save_descontos call stands
    itens,          \* concurrent saves: the descontos_dict of each call
    proximo,        \* concurrent saves: index of the next item each call inserts
    txn,            \* concurrent saves: the table as each open transaction sees it
    lock,           \* concurrent saves: the connection holding SQLite's write lock
    inicial,        \* history: the table before the concurrent calls
    ordem,          \* history: the calls that committed, in commit order
    leituras,       \* the results concurrent load_descontos calls returned
    page,           \* st.session_state["page"]
    view_prof,      \* st.session_state["view_prof"]
    view_period,    \* st.session_state["view_period"]
    ultima_acao     \* history: the last thing the user did in the detail spec

varsClassify == <<tipo_text, criterio>>
varsTier == <<pontos_final, classificacao>>
varsPontos == <<contagens, pts>>
varsLedger == <<descontos, chamadas>>
varsResumo == <<atendimentos, selected_period, df_summary>>
varsConc == <<pc, itens, proximo, txn, lock, inicial, ordem, leituras>>
varsSessao == <<page, view_prof, view_period, ultima_acao>>
vars == <<tipo_text, criterio, pontos_final, classificacao, contagens, pts,
          descontos, chamadas, atendimentos, selected_period, df_summary,
          pc, itens, proximo, txn, lock, inicial, ordem, leituras,
          page, view_prof, view_period, ultima_acao>>

NaoCalculado == "<nao calculado>"

\* values of the variables a specification does not use
IdleClassify == tipo_text = <<>> /\ criterio = NaoCalculado
IdleTier == pontos_final = 0 /\ classificacao = NaoCalculado
PtsVazio == [feito |-> FALSE, m |-> 0, n |-> 0, soma |-> 0, dois |-> 0]
IdlePontos == contagens = <<>> /\ pts = PtsVazio

TabelaVazia == [rows |-> {}, seq |-> 0]
IdleLedger == descontos = TabelaVazia /\ chamadas = <<>>

ResumoVazio == [erro |-> FALSE, linhas |-> <<>>]
IdleResumo ==
    atendimentos = <<>> /\ selected_period = "<None>" /\ df_summary = ResumoVazio

IdleConc ==
    /\ pc = <<>> /\ itens = <<>> /\ proximo = <<>> /\ txn = <<>>
    /\ lock = "livre" /\ inicial = TabelaVazia /\ ordem = <<>> /\ leituras = {}
IdleSessao ==
    /\ page = "lista" /\ view_prof = "<None>" /\ view_period = "<None>"
    /\ ultima_acao = "inicio"

(***************************************************************************)
(* Text helpers                                                            *)
(***************************************************************************)
NoneText == <<"<None>">>

UPPER == <<"A","B","C","D","E","F","G","H","I","J","K","L","M","N","O","P","Q","R","S","T","U","V","W","X","Y","Z","Á","É","Í","Ó","Ú","Â","Ê","Ô","Ã","Õ","Ç">>
LOWER == <<"a","b","c","d","e","f","g","h","i","j","k","l","m","n","o","p","q","r","s","t","u","v","w","x","y","z","á","é","í","ó","ú","â","ê","ô","ã","õ","ç">>

\* str.lower() on one character
LowerChar(c) ==
    IF \E i \in 1..Len(UPPER) : UPPER[i] = c
    THEN LOWER[CHOOSE i \in 1..Len(UPPER) : UPPER[i] = c]
    ELSE c

\* str.lower()
Lower(s) == [i \in 1..Len(s) |-> LowerChar(s[i])]

\* (tipo_text or ""): None and the empty string both give ""
OrEmpty(x) == IF x = NoneText \/ x = <<>> THEN <<>> ELSE x

\* Python's `kw in t` on strings: kw occurs as a contiguous substring of t
In(kw, t) ==
    \E i \in 1..(Len(t) - Len(kw) + 1) : SubSeq(t, i, i + Len(kw) - 1) = kw

\* any(x in t for x in [...])
AnyIn(kws, t) == \E i \in 1..Len(kws) : In(kws[i], t)

(***************************************************************************)
(* Keywords of map_tipo_para_criterio                                      *)
(***************************************************************************)
kw_visita == <<"v","i","s","i","t","a">>
kw_pre_ac == <<"p","r","é">>
kw_pre == <<"p","r","e">>
kw_lme == <<"l","m","e">>
kw_receita == <<"r","e","c","e","i","t","a">>
kw_renov == <<"r","e","n","o","v">>
kw_demanda == <<"d","e","m","a","n","d","a">>
kw_pediatria == <<"p","e","d","i","a","t","r","i","a">>
kw_ginecologia == <<"g","i","n","e","c","o","l","o","g","i","a">>
kw_clinica_ac == <<"c","l","í","n","i","c","a">>
kw_clinica == <<"c","l","i","n","i","c","a">>
kw_medicina == <<"m","e","d","i","c","i","n","a">>
kw_hipertensao_til == <<"h","i","p","e","r","t","e","n","s","ã","o">>
kw_hipertensao == <<"h","i","p","e","r","t","e","n","s","a","o">>
kw_diabetes == <<"d","i","a","b","e","t","e","s">>
kw_reuniao_til == <<"r","e","u","n","i","ã","o">>
kw_reuniao == <<"r","e","u","n","i","a","o">>
kw_reunioes == <<"r","e","u","n","i","o","e","s">>
kw_reunioes_til == <<"r","e","u","n","i","õ","e","s">>
kw_capacita == <<"c","a","p","a","c","i","t","a">>
kw_curso == <<"c","u","r","s","o">>
kw_renovacao == <<"r","e","n","o","v","a","c","a","o">>
kw_renovacao_ced == <<"r","e","n","o","v","a","ç","ã","o">>
kw_lancado_ced == <<"l","a","n","ç","a","d","o">>
kw_lancad == <<"l","a","n","c","a","d">>
kw_maestro == <<"m","a","e","s","t","r","o">>
kw_sistema == <<"s","i","s","t","e","m","a">>
kw_consulta == <<"c","o","n","s","u","l","t","a">>

(***************************************************************************)
(* map_tipo_para_criterio: the chain of substring tests                    *)
(***************************************************************************)
\* A variant that tests the LME/receita keywords before the "pre" test.
map_tipo_lme_antes_de_pre(tt) ==
    LET t == Lower(OrEmpty(tt)) IN
    IF In(kw_visita, t) THEN "visita_domiciliar"
    ELSE IF AnyIn(<<kw_lme, kw_receita, kw_renovacao, kw_renovacao_ced>>, t)
        THEN "dias_lme"
    ELSE IF In(kw_pre_ac, t) \/ In(kw_pre, t) THEN "pre_natal"
    ELSE IF In(kw_demanda, t) THEN "dias_demanda_8"
    ELSE IF AnyIn(<<kw_pediatria, kw_ginecologia, kw_clinica_ac, kw_clinica,
                    kw_medicina, kw_hipertensao_til, kw_hipertensao,
                    kw_diabetes>>, t)
        THEN "especialidades_basicas"
    ELSE IF AnyIn(<<kw_reuniao_til, kw_reuniao, kw_reunioes, kw_reunioes_til>>, t)
        THEN "reunioes"
    ELSE IF AnyIn(<<kw_capacita, kw_curso>>, t) THEN "capacitacoes"
    ELSE IF AnyIn(<<kw_lancado_ced, kw_lancad, kw_maestro, kw_sistema>>, t)
        THEN "dias_lancados_sistema"
    ELSE IF In(kw_consulta, t) THEN "consulta"
    ELSE "outros"

map_tipo_para_criterio(tt) ==
    LET t == Lower(OrEmpty(tt)) IN
    IF In(kw_visita, t) THEN "visita_domiciliar"
    ELSE IF In(kw_pre_ac, t) \/ In(kw_pre, t)
        THEN (IF In(kw_lme, t) \/ In(kw_receita, t) \/ In(kw_renov, t)
              THEN "dias_lme"
              ELSE "pre_natal")
    ELSE IF In(kw_demanda, t) THEN "dias_demanda_8"
    ELSE IF AnyIn(<<kw_pediatria, kw_ginecologia, kw_clinica_ac, kw_clinica,
                    kw_medicina, kw_hipertensao_til, kw_hipertensao,
                    kw_diabetes>>, t)
        THEN "especialidades_basicas"
    ELSE IF AnyIn(<<kw_reuniao_til, kw_reuniao, kw_reunioes, kw_reunioes_til>>, t)
        THEN "reunioes"
    ELSE IF AnyIn(<<kw_capacita, kw_curso>>, t) THEN "capacitacoes"
    ELSE IF AnyIn(<<kw_lme, kw_receita, kw_renovacao, kw_renovacao_ced>>, t)
        THEN "dias_lme"
    ELSE IF AnyIn(<<kw_lancado_ced, kw_lancad, kw_maestro, kw_sistema>>, t)
        THEN "dias_lancados_sistema"
    ELSE IF In(kw_consulta, t) THEN "consulta"
    ELSE "outros"

(***************************************************************************)
(* Activity labels fed to the classifier: up to MaxWords words of the      *)
(* vocabulary, separated by one space, or no text at all.                  *)
(***************************************************************************)
MaxWords == 2

Vocabulario ==
    { <<"V","i","s","i","t","a">>,
      <<"d","o","m","i","c","i","l","i","a","r">>,
      <<"P","r","é">>,
      <<"P","R","E">>,
      <<"N","a","t","a","l">>,
      <<"L","M","E">>,
      <<"R","e","c","e","i","t","a">>,
      <<"R","e","n","o","v","a","ç","ã","o">>,
      <<"r","e","n","o","v">>,
      <<"D","e","m","a","n","d","a">>,
      <<"P","e","d","i","a","t","r","i","a">>,
      <<"G","I","N","E","C","O","L","O","G","I","A">>,
      <<"C","l","í","n","i","c","a">>,
      <<"c","l","i","n","i","c","a">>,
      <<"M","e","d","i","c","i","n","a">>,
      <<"H","i","p","e","r","t","e","n","s","ã","o">>,
      <<"h","i","p","e","r","t","e","n","s","a","o">>,
      <<"D","i","a","b","e","t","e","s">>,
      <<"R","e","u","n","i","ã","o">>,
      <<"r","e","u","n","i","a","o">>,
      <<"R","e","u","n","i","o","e","s">>,
      <<"R","E","U","N","I","Õ","E","S">>,
      <<"C","a","p","a","c","i","t","a","ç","ã","o">>,
      <<"C","u","r","s","o">>,
      <<"r","e","n","o","v","a","c","a","o">>,
      <<"L","a","n","ç","a","d","o">>,
      <<"l","a","n","c","a","d","o","s">>,
      <<"M","a","e","s","t","r","o">>,
      <<"S","i","s","t","e","m","a">>,
      <<"C","o","n","s","u","l","t","a">>,
      <<"E","m","p","r","e","s","a">>,
      <<"O","u","t","r","o">> }

RECURSIVE Frases(_)
Frases(n) ==
    IF n = 0 THEN { <<>> }
    ELSE LET menores == Frases(n - 1) IN
         menores
         \cup { IF f = <<>> THEN w ELSE f \o <<" ">> \o w :
                    <<f, w>> \in menores \X Vocabulario }

Labels == Frases(MaxWords) \cup { NoneText }

(***************************************************************************)
(* Specification of the classifier alone: a label is drawn, then           *)
(* classified.                                                             *)
(***************************************************************************)
InitClassify ==
    /\ tipo_text \in Labels
    /\ criterio = NaoCalculado
    /\ IdleTier
    /\ IdlePontos
    /\ IdleLedger
    /\ IdleResumo
    /\ IdleConc
    /\ IdleSessao

Classificar ==
    /\ criterio = NaoCalculado
    /\ criterio' = map_tipo_para_criterio(tipo_text)
    /\ UNCHANGED <<tipo_text, varsTier, varsPontos, varsLedger, varsResumo, varsConc, varsSessao>>

NextClassify == Classificar

SpecClassify == InitClassify /\ [][NextClassify]_vars

(***************************************************************************)
(* C1. The priority list of the classifier, as an ordered list of rules:   *)
(* a rule matches a lower-cased text when every keyword group of the rule  *)
(* has a keyword that occurs in the text.                                  *)
(***************************************************************************)
Regras == <<
    [grupos |-> { {kw_visita} },                        crit |-> "visita_domiciliar"],
    [grupos |-> { {kw_pre_ac, kw_pre},
                  {kw_lme, kw_receita, kw_renov} },     crit |-> "dias_lme"],
    [grupos |-> { {kw_pre_ac, kw_pre} },                crit |-> "pre_natal"],
    [grupos |-> { {kw_demanda} },                       crit |-> "dias_demanda_8"],
    [grupos |-> { {kw_pediatria, kw_ginecologia, kw_clinica_ac, kw_clinica,
                   kw_medicina, kw_hipertensao_til, kw_hipertensao,
                   kw_diabetes} },                      crit |-> "especialidades_basicas"],
    [grupos |-> { {kw_reuniao_til, kw_reuniao, kw_reunioes,
                   kw_reunioes_til} },                  crit |-> "reunioes"],
    [grupos |-> { {kw_capacita, kw_curso} },            crit |-> "capacitacoes"],
    [grupos |-> { {kw_lme, kw_receita, kw_renovacao,
                   kw_renovacao_ced} },                 crit |-> "dias_lme"],
    [grupos |-> { {kw_lancado_ced, kw_lancad, kw_maestro,
                   kw_sistema} },                       crit |-> "dias_lancados_sistema"],
    [grupos |-> { {kw_consulta} },                      crit |-> "consulta"],
    [grupos |-> { },                                    crit |-> "outros"] >>

RegraCasa(i, t) == \A g \in Regras[i].grupos : \E kw \in g : In(kw, t)

PrimeiraRegra(t) ==
    CHOOSE i \in 1..Len(Regras) :
        RegraCasa(i, t) /\ \A j \in 1..(i - 1) : ~RegraCasa(j, t)

TextoMinusculo == Lower(IF tipo_text = NoneText THEN <<>> ELSE tipo_text)

\* C1: once a label (possibly empty or absent) is classified, the result is
\* the criterion of the first rule of the 11-rule priority list that matches
\* its lower-cased text; "outros" when none of rules 1..10 matches.
C1_FirstMatchWins ==
    criterio # NaoCalculado =>
        /\ criterio = Regras[PrimeiraRegra(TextoMinusculo)].crit
        /\ (\A i \in 1..10 : ~RegraCasa(i, TextoMinusculo)) => criterio = "outros"

\* a label that matches rules 2, 3 and 8 at once has been classified
C1_Witness ==
    /\ criterio = "dias_lme"
    /\ RegraCasa(2, TextoMinusculo)
    /\ RegraCasa(3, TextoMinusculo)
    /\ RegraCasa(8, TextoMinusculo)

(***************************************************************************)
(* classify_points: the tier bands                                         *)
(***************************************************************************)
TipoI == "Tem direito - Gratificação Tipo I"
TipoII == "Tem direito - Gratificação Tipo II"
TipoIII == "Tem direito - Gratificação Tipo III"
TipoIV == "Tem direito - Gratificação Tipo IV"
TipoV == "Tem direito - Gratificação Tipo V"
NaoTemDireito == "Não tem direito"

\* A variant whose first band excludes its upper end.
classify_points_850_fora(p) ==
    IF 650 <= p /\ p < 850 THEN TipoI
    ELSE IF 851 <= p /\ p <= 950 THEN TipoII
    ELSE IF 951 <= p /\ p <= 1050 THEN TipoIII
    ELSE IF 1051 <= p /\ p <= 1150 THEN TipoIV
    ELSE IF p >= 1151 THEN TipoV
    ELSE NaoTemDireito

classify_points(p) ==
    IF 650 <= p /\ p <= 850 THEN TipoI
    ELSE IF 851 <= p /\ p <= 950 THEN TipoII
    ELSE IF 951 <= p /\ p <= 1050 THEN TipoIII
    ELSE IF 1051 <= p /\ p <= 1150 THEN TipoIV
    ELSE IF p >= 1151 THEN TipoV
    ELSE NaoTemDireito

\* final scores tried: every integer of -MaxPontos..MaxPontos
MaxPontos == 1300

InitTier ==
    /\ pontos_final \in (-MaxPontos)..MaxPontos
    /\ classificacao = NaoCalculado
    /\ IdleClassify
    /\ IdlePontos
    /\ IdleLedger
    /\ IdleResumo
    /\ IdleConc
    /\ IdleSessao

ClassificarPontos ==
    /\ classificacao = NaoCalculado
    /\ classificacao' = classify_points(pontos_final)
    /\ UNCHANGED <<pontos_final, varsClassify, varsPontos, varsLedger, varsResumo, varsConc, varsSessao>>

NextTier == ClassificarPontos

SpecTier == InitTier /\ [][NextTier]_vars

\* the bands of the tier table; the last one has no upper end
Faixas == <<
    [de |-> 650,  ate |-> 850,  semFim |-> FALSE, rotulo |-> TipoI],
    [de |-> 851,  ate |-> 950,  semFim |-> FALSE, rotulo |-> TipoII],
    [de |-> 951,  ate |-> 1050, semFim |-> FALSE, rotulo |-> TipoIII],
    [de |-> 1051, ate |-> 1150, semFim |-> FALSE, rotulo |-> TipoIV],
    [de |-> 1151, ate |-> 1151, semFim |-> TRUE,  rotulo |-> TipoV] >>

NaFaixa(i, p) == Faixas[i].de <= p /\ (Faixas[i].semFim \/ p <= Faixas[i].ate)

\* C2: classify_points gives every integer exactly one label: the label of
\* the one inclusive band that holds it, and "not eligible" below 650
\* (negative scores included); 649, 650, 850, 851, 1150 and 1151 fall as the
\* boundary table says.
C2_TierBands ==
    classificacao # NaoCalculado =>
        /\ classificacao \in {TipoI, TipoII, TipoIII, TipoIV, TipoV, NaoTemDireito}
        /\ \A i \in 1..Len(Faixas) :
              NaFaixa(i, pontos_final) <=> classificacao = Faixas[i].rotulo
        /\ pontos_final < 650 <=> classificacao = NaoTemDireito
        /\ pontos_final = 649 => classificacao = NaoTemDireito
        /\ pontos_final \in {650, 850} => classificacao = TipoI
        /\ pontos_final = 851 => classificacao = TipoII
        /\ pontos_final = 1150 => classificacao = TipoIV
        /\ pontos_final = 1151 => classificacao = TipoV

\* the upper end of the first band has been classified
C2_Witness == pontos_final = 850 /\ classificacao = TipoI

(***************************************************************************)
(* calcula_pontos_positivos_from_summary and the positive weight table     *)
(***************************************************************************)
WEIGHTS_POSITIVOS ==
    [ dias_25_vagas |-> 20,
      dias_demanda_8 |-> 10,
      visita_domiciliar |-> 8,
      semanas_encaminho_ate15 |-> 100,
      semanas_encaminho_acima15 |-> 300,
      dias_lme |-> 15,
      reunioes |-> 20,
      capacitacoes |-> 30,
      especialidades_basicas |-> 36,
      dias_lancados_sistema |-> 10 ]

\* A variant that gives a criterion missing from the table one point per
\* unit (a default weight of 1, as WEIGHTS_POSITIVOS.get(crit, 1) would).
PontosDoItem_peso_padrao(crit, cnt) ==
    IF crit \in DOMAIN WEIGHTS_POSITIVOS THEN WEIGHTS_POSITIVOS[crit] * cnt ELSE cnt

\* the loop body: what one (crit, cnt) item adds to pts
PontosDoItem(crit, cnt) ==
    IF crit \in DOMAIN WEIGHTS_POSITIVOS THEN WEIGHTS_POSITIVOS[crit] * cnt ELSE 0

RECURSIVE SomaItens(_, _)
SomaItens(summary_counts, crits) ==
    IF crits = {} THEN 0
    ELSE LET crit == CHOOSE c \in crits : TRUE IN
         PontosDoItem(crit, summary_counts[crit])
         + SomaItens(summary_counts, crits \ {crit})

calcula_pontos_positivos_from_summary(summary_counts) ==
    SomaItens(summary_counts, DOMAIN summary_counts)

\* criteria the classifier can name, plus the two it never produces
CRITERIOS == DOMAIN WEIGHTS_POSITIVOS \cup {"consulta", "outros", "pre_natal"}

\* counts tried: 0..MaxContagem
MaxContagem == 3

\* {a: n} as a Python dict
Dict1(a, n) == [c \in {a} |-> n]
\* {a: m, b: k}, a # b
Dict2(a, m, b, k) == [c \in {a, b} |-> IF c = a THEN m ELSE k]

InitPontos ==
    /\ contagens \in [ a : CRITERIOS, m : 0..MaxContagem, n : 0..MaxContagem,
                       b : CRITERIOS, k : 0..MaxContagem ]
    /\ contagens.a # contagens.b
    /\ pts = PtsVazio
    /\ IdleClassify
    /\ IdleTier
    /\ IdleLedger
    /\ IdleResumo
    /\ IdleConc
    /\ IdleSessao

CalcularPontos ==
    /\ ~pts.feito
    /\ pts' = [ feito |-> TRUE,
                m |-> calcula_pontos_positivos_from_summary(
                          Dict1(contagens.a, contagens.m)),
                n |-> calcula_pontos_positivos_from_summary(
                          Dict1(contagens.a, contagens.n)),
                soma |-> calcula_pontos_positivos_from_summary(
                          Dict1(contagens.a, contagens.m + contagens.n)),
                dois |-> calcula_pontos_positivos_from_summary(
                          Dict2(contagens.a, contagens.m, contagens.b, contagens.k)) ]
    /\ UNCHANGED <<contagens, varsClassify, varsTier, varsLedger, varsResumo, varsConc, varsSessao>>

NextPontos == CalcularPontos

SpecPontos == InitPontos /\ [][NextPontos]_vars

\* the per-unit weights of the positive table; zero for any other criterion
C5_Peso(c) ==
    CASE c = "dias_25_vagas" -> 20
      [] c = "dias_demanda_8" -> 10
      [] c = "visita_domiciliar" -> 8
      [] c = "semanas_encaminho_ate15" -> 100
      [] c = "semanas_encaminho_acima15" -> 300
      [] c = "dias_lme" -> 15
      [] c = "reunioes" -> 20
      [] c = "capacitacoes" -> 30
      [] c = "especialidades_basicas" -> 36
      [] c = "dias_lancados_sistema" -> 10
      [] OTHER -> 0

\* C5: the points of {A: m} plus the points of {A: n} are the points of
\* {A: m+n}; the points of a mapping are the sum over its criteria of count
\* times the table's weight; consulta, outros and pre_natal add nothing.
C5_Linear ==
    pts.feito =>
        /\ pts.m + pts.n = pts.soma
        /\ pts.m = C5_Peso(contagens.a) * contagens.m
        /\ pts.dois = C5_Peso(contagens.a) * contagens.m
                      + C5_Peso(contagens.b) * contagens.k
        /\ contagens.a \in {"consulta", "outros", "pre_natal"} => pts.soma = 0

\* a weighted and an unweighted criterion with non-zero counts were scored
C5_Witness ==
    /\ pts.feito
    /\ contagens.a = "visita_domiciliar" /\ contagens.m = 2 /\ contagens.n = 1
    /\ contagens.b = "consulta" /\ contagens.k = 3
    /\ pts.soma = 24 /\ pts.dois = 16

(***************************************************************************)
(* The discount ledger: table descontos, save_descontos, load_descontos    *)
(*                                                                         *)
(* A Python dict is a sequence of <<key, value>> pairs with distinct keys, *)
(* in insertion order.  The values saved are integers, on which int() is   *)
(* the identity.  Professional ids are strings; PyNone, NaN and SqlNull    *)
(* are markers for None, float('nan') and SQL NULL.                        *)
(***************************************************************************)
PyNone == "<None>"
NaN == "<nan>"
SqlNull == "<NULL>"

\* sqlite3 parameter binding: None and a NaN float are both stored as NULL
Bind(v) == IF v \in {PyNone, NaN} THEN SqlNull ELSE v

\* SQL `a = b`: never true when a side is NULL (also how UNIQUE compares)
SqlEq(a, b) == a # SqlNull /\ b # SqlNull /\ a = b

\* the rows a new (profissional_id, period, campo) row collides with under
\* UNIQUE(profissional_id, period, campo)
Conflitos(rows, k, p, campo) ==
    { r \in rows : SqlEq(r.profissional_id, k) /\ SqlEq(r.period, p)
                   /\ SqlEq(r.campo, campo) }

\* INSERT OR IGNORE: a variant that keeps the row already stored.
InsertOrIgnore(db, k, p, campo, valor) ==
    IF Conflitos(db.rows, Bind(k), Bind(p), campo) # {}
    THEN db
    ELSE [ rows |-> db.rows \cup { [ id |-> db.seq + 1, profissional_id |-> Bind(k),
                                     period |-> Bind(p), campo |-> campo,
                                     valor |-> valor ] },
           seq |-> db.seq + 1 ]

\* INSERT OR REPLACE INTO descontos (profissional_id, period, campo, valor):
\* the colliding rows are deleted, the new row gets the next AUTOINCREMENT id
InsertOrReplace(db, k, p, campo, valor) ==
    [ rows |-> (db.rows \ Conflitos(db.rows, Bind(k), Bind(p), campo))
               \cup { [ id |-> db.seq + 1, profissional_id |-> Bind(k),
                        period |-> Bind(p), campo |-> campo, valor |-> valor ] },
      seq |-> db.seq + 1 ]

\* the for loop of save_descontos over descontos_dict.items(), from item i on
RECURSIVE InserirItens(_, _, _, _, _)
InserirItens(db, k, p, its, i) ==
    IF i > Len(its) THEN db
    ELSE InserirItens(InsertOrReplace(db, k, p, its[i][1], its[i][2]),
                      k, p, its, i + 1)

\* A variant that takes an empty mapping to mean "no discounts" and deletes
\* the entries of (profissional_id, period).
save_descontos_vazio_limpa(db, profissional_id, period, descontos_dict) ==
    IF descontos_dict = <<>>
    THEN [ db EXCEPT !.rows =
             { r \in db.rows : ~(SqlEq(r.profissional_id, Bind(profissional_id))
                                 /\ SqlEq(r.period, Bind(period))) } ]
    ELSE InserirItens(db, profissional_id, period, descontos_dict, 1)

\* save_descontos run alone, from its first line to conn.commit()
save_descontos(db, profissional_id, period, descontos_dict) ==
    IF descontos_dict = <<>> THEN db
    ELSE InserirItens(db, profissional_id, period, descontos_dict, 1)

\* SELECT campo, valor FROM descontos WHERE profissional_id=? AND period=?
Selecionar(db, k, p) ==
    { r \in db.rows : SqlEq(r.profissional_id, Bind(k)) /\ SqlEq(r.period, Bind(p)) }

\* load_descontos: {r[0]: r[1] for r in rows}; of several rows with one campo
\* the dict keeps the last one fetched (rowid order)
load_descontos(db, profissional_id, period) ==
    LET rows == Selecionar(db, profissional_id, period) IN
    [ c \in { r.campo : r \in rows } |->
        (CHOOSE r \in rows :
            r.campo = c /\ \A r2 \in rows : r2.campo = c => r2.id <= r.id).valor ]

\* descontos_dict.get(campo, 0) on a loaded mapping
Get(d, campo) == IF campo \in DOMAIN d THEN d[campo] ELSE 0

(***************************************************************************)
(* Specification of the ledger alone: save_descontos called with any of a  *)
(* few keys, periods and mappings, at most MaxSaves times.                 *)
(***************************************************************************)
MaxSaves == 3

ChavesLedger == {"3321", "ANA"}
PeriodosLedger == {"2025-03", "2025-04"}
CamposLedger == {"falta_dia", "falta_meio"}
DictsLedger ==
    { <<>>,
      << <<"falta_dia", 400>> >>,
      << <<"falta_dia", 800>> >>,
      << <<"falta_meio", 300>> >>,
      << <<"falta_meio", 600>>, <<"falta_dia", 400>> >> }

InitLedger ==
    /\ descontos = TabelaVazia
    /\ chamadas = <<>>
    /\ IdleClassify
    /\ IdleTier
    /\ IdlePontos
    /\ IdleResumo
    /\ IdleConc
    /\ IdleSessao

SaveDescontos(k, p, d) ==
    /\ Len(chamadas) < MaxSaves
    /\ descontos' = save_descontos(descontos, k, p, d)
    /\ chamadas' = Append(chamadas, [profissional_id |-> k, period |-> p, dict |-> d])
    /\ UNCHANGED <<varsClassify, varsTier, varsPontos, varsResumo, varsConc, varsSessao>>

NextLedger ==
    \E k \in ChavesLedger, p \in PeriodosLedger, d \in DictsLedger :
        SaveDescontos(k, p, d)

SpecLedger == InitLedger /\ [][NextLedger]_vars

\* the calls that wrote campo c under (k, p), by their place in the history
Gravacoes(k, p, c) ==
    { i \in 1..Len(chamadas) :
        /\ chamadas[i].profissional_id = k
        /\ chamadas[i].period = p
        /\ \E j \in 1..Len(chamadas[i].dict) : chamadas[i].dict[j][1] = c }

ValorGravado(i, c) ==
    LET d == chamadas[i].dict IN
    d[CHOOSE j \in 1..Len(d) : d[j][1] = c][2]

Ultima(S) == CHOOSE i \in S : \A j \in S : j <= i

\* C3: after any sequence of saves, load_descontos(key, period) holds for each
\* criterion exactly the value of the latest save under that (key, period)
\* whose mapping had the criterion, nothing for a criterion never written
\* there, and the table has at most one row per (key, period, criterion).
C3_LastWriteWins ==
    /\ \A k \in ChavesLedger, p \in PeriodosLedger, c \in CamposLedger :
          LET lido == load_descontos(descontos, k, p)
              g == Gravacoes(k, p, c)
          IN  IF g = {} THEN c \notin DOMAIN lido
              ELSE c \in DOMAIN lido /\ lido[c] = ValorGravado(Ultima(g), c)
    /\ \A k \in ChavesLedger, p \in PeriodosLedger :
          DOMAIN load_descontos(descontos, k, p) \subseteq CamposLedger
    /\ \A r1, r2 \in descontos.rows :
          (r1.profissional_id = r2.profissional_id /\ r1.period = r2.period
           /\ r1.campo = r2.campo) => r1 = r2

\* falta_dia was saved twice under one (key, period) with two values, and a
\* save under another key came after
C3_Witness ==
    \E i, j, l \in 1..Len(chamadas) :
        /\ i < j /\ j < l
        /\ chamadas[i].profissional_id = chamadas[j].profissional_id
        /\ chamadas[i].period = chamadas[j].period
        /\ chamadas[l].profissional_id # chamadas[i].profissional_id
        /\ chamadas[i].dict = << <<"falta_dia", 400>> >>
        /\ chamadas[j].dict = << <<"falta_dia", 800>> >>
        /\ chamadas[l].dict = << <<"falta_dia", 400>> >>
        /\ load_descontos(descontos, chamadas[i].profissional_id,
                          chamadas[i].period)["falta_dia"] = 800

\* the step is a save_descontos call with an empty mapping
PassoSaveVazio ==
    /\ Len(chamadas') = Len(chamadas) + 1
    /\ chamadas'[Len(chamadas')].dict = <<>>

\* C4: a save_descontos call with an empty mapping leaves the table as it
\* was, so load_descontos returns the same entries for every key and period.
C4_EmptySaveNoOp ==
    [][ PassoSaveVazio =>
          /\ descontos'.rows = descontos.rows
          /\ \A k \in ChavesLedger, p \in PeriodosLedger :
                load_descontos(descontos', k, p) = load_descontos(descontos, k, p)
      ]_vars

\* an empty mapping was just saved under a key that holds two entries
C4_Witness ==
    /\ Len(chamadas) >= 2
    /\ chamadas[Len(chamadas)].dict = <<>>
    /\ DOMAIN load_descontos(descontos, chamadas[Len(chamadas)].profissional_id,
                             chamadas[Len(chamadas)].period)
         = {"falta_dia", "falta_meio"}

(***************************************************************************)
(* The list view: load_atendimentos, the period filter and                 *)
(* resumo_por_profissional                                                 *)
(*                                                                         *)
(* A row of atendimentos is [profissional_id, profissional, tipo,          *)
(* quantidade, period] (data and source_file play no part in the score).   *)
(* A missing profissional_id is NULL in the table and None in the loaded   *)
(* frame.                                                                  *)
(***************************************************************************)
\* a column read back from SQLite: NULL is None in an object column
FromSql(v) == IF v = SqlNull THEN PyNone ELSE v

\* load_atendimentos: quantidade goes through to_numeric / fillna(0) /
\* astype(int), the identity on the integers the INTEGER column holds
load_atendimentos(tbl) ==
    [ i \in 1..Len(tbl) |->
        [ profissional_id |-> FromSql(tbl[i].profissional_id),
          profissional |-> FromSql(tbl[i].profissional),
          tipo |-> tbl[i].tipo,
          quantidade |-> tbl[i].quantidade,
          period |-> FromSql(tbl[i].period) ] ]

\* all_data[all_data["period"] == selected_period]
FiltrarPeriodo(df, period) == SelectSeq(df, LAMBDA r : r.period = period)

\* groupby(..., dropna=False): the key of the group of missing values of an
\* object column is float('nan'), whatever null (None, nan) the rows hold
GroupKey(v) == IF v \in {PyNone, NaN} THEN NaN ELSE v

ChaveDoGrupo(r) == <<GroupKey(r.profissional_id), GroupKey(r.profissional)>>

\* the loop over g.iterrows(): crit_counts after rows i.. of df, rows of
\* other groups skipped; pd.notnull(quantidade) holds of every integer, so
\* the conditional expression always takes its first arm
RECURSIVE ContarCriterios(_, _, _, _)
ContarCriterios(df, grupo, i, crit_counts) ==
    IF i > Len(df) THEN crit_counts
    ELSE IF ChaveDoGrupo(df[i]) # grupo
         THEN ContarCriterios(df, grupo, i + 1, crit_counts)
    ELSE LET crit == map_tipo_para_criterio(df[i].tipo)
             novo == Get(crit_counts, crit) + df[i].quantidade
         IN  ContarCriterios(df, grupo, i + 1,
                 [ c \in DOMAIN crit_counts \cup {crit} |->
                     IF c = crit THEN novo ELSE crit_counts[c] ])

\* sum(d.values())
RECURSIVE SomaValores(_, _)
SomaValores(d, chaves) ==
    IF chaves = {} THEN 0
    ELSE LET c == CHOOSE x \in chaves : TRUE IN
         d[c] + SomaValores(d, chaves \ {c})

\* key_id = pid if pid not in (None, "", "None") else pnome
\* (`in` compares with ==, and nan equals none of the three)
KeyId(pid, pnome) == IF pid \notin {PyNone, "", "None"} THEN pid ELSE pnome

\* the row resumo_por_profissional builds for one group
LinhaResumo(df, db, period, pid, pnome) ==
    LET crit_counts == ContarCriterios(df, <<pid, pnome>>, 1, <<>>)
        pontos_pos == calcula_pontos_positivos_from_summary(crit_counts)
        key_id == KeyId(pid, pnome)
        descontos_salvos == load_descontos(db, key_id, period)
        pontos_neg == IF DOMAIN descontos_salvos # {}
                      THEN SomaValores(descontos_salvos, DOMAIN descontos_salvos)
                      ELSE 0
        pontos_fin == pontos_pos - pontos_neg
    IN  [ profissional_id |-> key_id,
          profissional |-> IF pnome \notin {PyNone, "", "None"} THEN pnome ELSE key_id,
          crit_counts |-> crit_counts,
          pontos_positivos |-> pontos_pos,
          pontos_negativos |-> pontos_neg,
          pontos_finais |-> pontos_fin,
          classificacao |-> classify_points(pontos_fin) ]

\* resumo_por_profissional(data_period): one row per (profissional_id,
\* profissional) group; no step of it raises for integer quantities
resumo_por_profissional(df, db, period) ==
    [ erro |-> FALSE,
      linhas |-> [ g \in { ChaveDoGrupo(df[i]) : i \in 1..Len(df) } |->
                     LinhaResumo(df, db, period, g[1], g[2]) ] ]

\* sorted(all_data["period"].dropna().unique()), for the periods of the model
PeriodosOrdenados == <<"2025-03", "2025-04">>

PeriodosDe(tbl) == { tbl[i].period : i \in 1..Len(tbl) } \ {SqlNull}

UltimoPeriodo(tbl) ==
    PeriodosOrdenados[CHOOSE i \in 1..Len(PeriodosOrdenados) :
        /\ PeriodosOrdenados[i] \in PeriodosDe(tbl)
        /\ \A j \in (i + 1)..Len(PeriodosOrdenados) :
              PeriodosOrdenados[j] \notin PeriodosDe(tbl)]

\* one run of the script down to the list: load, filter, summarise
ListaDoPeriodo(tbl, db, period) ==
    IF PeriodosDe(tbl) = {} THEN ResumoVazio
    ELSE resumo_por_profissional(
             FiltrarPeriodo(load_atendimentos(tbl), period), db, period)

(***************************************************************************)
(* Specification of the list view: rows are uploaded, discounts are saved, *)
(* a period is selected; every script run rebuilds the list.               *)
(***************************************************************************)
MaxRegistros == 2
MaxLancamentos == 2

\* (profissional_id, profissional) as stored: one id under two spellings of
\* the name, no id, and an empty id
Profissionais ==
    { <<"3321", "ANA">>, <<"3321", "3321 - ANA">>, <<SqlNull, "ANA">>, <<"", "ANA">> }

TipoConsulta == <<"C","o","n","s","u","l","t","a">>
TipoVisita ==
    <<"V","i","s","i","t","a"," ","d","o","m","i","c","i","l","i","a","r">>
TipoPediatria == <<"P","e","d","i","a","t","r","i","a">>

Registros ==
    { [ profissional_id |-> pr[1], profissional |-> pr[2], tipo |-> t,
        quantidade |-> q, period |-> p ] :
        pr \in Profissionais,
        t \in {TipoConsulta, TipoVisita, TipoPediatria},
        q \in {-3, 2, 20},
        p \in {"2025-03", "2025-04"} }

InitResumo ==
    /\ atendimentos = <<>>
    /\ selected_period = PyNone
    /\ df_summary = ResumoVazio
    /\ descontos = TabelaVazia
    /\ chamadas = <<>>
    /\ IdleClassify
    /\ IdleTier
    /\ IdlePontos
    /\ IdleConc
    /\ IdleSessao

\* a report with one row is uploaded: the row is appended, and the selectbox,
\* rebuilt when the list of periods changes, falls back to the last period
Upload(r) ==
    /\ Len(atendimentos) < MaxRegistros
    /\ atendimentos' = Append(atendimentos, r)
    /\ selected_period' =
          IF PeriodosDe(atendimentos') = PeriodosDe(atendimentos)
          THEN selected_period
          ELSE UltimoPeriodo(atendimentos')
    /\ df_summary' = ListaDoPeriodo(atendimentos', descontos, selected_period')
    /\ ultima_acao' = "upload"
    /\ UNCHANGED <<varsClassify, varsTier, varsPontos, varsLedger, varsConc,
                   page, view_prof, view_period>>

\* another period is picked in the selectbox
SelecionarPeriodo(p) ==
    /\ p \in PeriodosDe(atendimentos)
    /\ p # selected_period
    /\ selected_period' = p
    /\ df_summary' = ListaDoPeriodo(atendimentos, descontos, p)
    /\ ultima_acao' = "periodo"
    /\ UNCHANGED <<atendimentos, varsClassify, varsTier, varsPontos, varsLedger,
                   varsConc, page, view_prof, view_period>>

\* a discount is stored under a key and a period, and the list is rebuilt
LancarDesconto(k, p, d) ==
    /\ descontos.seq < MaxLancamentos
    /\ descontos' = save_descontos(descontos, k, p, d)
    /\ df_summary' = ListaDoPeriodo(atendimentos, descontos', selected_period)
    /\ ultima_acao' = "desconto"
    /\ UNCHANGED <<chamadas, atendimentos, selected_period,
                   varsClassify, varsTier, varsPontos, varsConc,
                   page, view_prof, view_period>>

NextResumo ==
    \/ \E r \in Registros : Upload(r)
    \/ \E p \in {"2025-03", "2025-04"} : SelecionarPeriodo(p)
    \/ \E k \in {"3321", "ANA"}, p \in {"2025-03", "2025-04"} :
          LancarDesconto(k, p, << <<"falta_dia", 400>> >>)

SpecResumo == InitResumo /\ [][NextResumo]_vars

\* the stored rows of the selected period
DoPeriodo == SelectSeq(atendimentos, LAMBDA r : r.period = selected_period)

\* the (profissional_id, profissional) pairs stored for the selected period
GruposGravados ==
    { <<DoPeriodo[i].profissional_id, DoPeriodo[i].profissional>> :
        i \in 1..Len(DoPeriodo) }

\* the list row of a stored pair
LinhaDoGrupo(g) ==
    df_summary.linhas[<<GroupKey(FromSql(g[1])), GroupKey(FromSql(g[2]))>>]

TemLinha(g) ==
    <<GroupKey(FromSql(g[1])), GroupKey(FromSql(g[2]))>> \in DOMAIN df_summary.linhas

\* the rows of the selected period that belong to pair g and classify as c
RegistrosDe(g, c) ==
    { i \in 1..Len(DoPeriodo) :
        /\ DoPeriodo[i].profissional_id = g[1]
        /\ DoPeriodo[i].profissional = g[2]
        /\ map_tipo_para_criterio(DoPeriodo[i].tipo) = c }

RECURSIVE SomaQuantidades(_)
SomaQuantidades(idx) ==
    IF idx = {} THEN 0
    ELSE LET i == CHOOSE x \in idx : TRUE IN
         DoPeriodo[i].quantidade + SomaQuantidades(idx \ {i})

\* professionalKey: the id when present and non-empty, else the name
ChaveResolvida(g) == IF g[1] \notin {SqlNull, ""} THEN g[1] ELSE g[2]

\* the sum of the ledger values stored under key k and the selected period
PenalidadesDe(k) ==
    LET d == load_descontos(descontos, k, selected_period) IN
    SomaValores(d, DOMAIN d)

ContagensCertas(g) ==
    LET l == LinhaDoGrupo(g) IN
    /\ DOMAIN l.crit_counts = { c \in CRITERIOS : RegistrosDe(g, c) # {} }
    /\ \A c \in DOMAIN l.crit_counts :
          l.crit_counts[c] = SomaQuantidades(RegistrosDe(g, c))

FinalETipoCertos(g) ==
    LET l == LinhaDoGrupo(g) IN
    /\ l.pontos_finais = l.pontos_positivos - l.pontos_negativos
    /\ l.classificacao = classify_points(l.pontos_finais)

\* C6 (as claimed): every group of records of the selected period has a list
\* row whose counts are the summed quantities per classified criterion,
\* whose negative points are the sum of the ledger values stored under the
\* group's resolved key (id when present and non-empty, else name) and that
\* period, whose final points are positive minus negative, unclamped, and
\* whose tier is classify_points of the final points.
C6_SummaryAsClaimed ==
    \A g \in GruposGravados :
        /\ TemLinha(g)
        /\ ContagensCertas(g)
        /\ LinhaDoGrupo(g).pontos_negativos = PenalidadesDe(ChaveResolvida(g))
        /\ FinalETipoCertos(g)

\* What does hold of every list row: the counts, the subtraction and the tier
\* are as claimed, and the negative points are the ledger sum under the key
\* the row itself carries.
ResumoCoerenteComChaveDaLinha ==
    \A g \in GruposGravados :
        /\ TemLinha(g)
        /\ ContagensCertas(g)
        /\ LinhaDoGrupo(g).pontos_negativos
             = PenalidadesDe(LinhaDoGrupo(g).profissional_id)
        /\ FinalETipoCertos(g)

\* The end-to-end example is reached: Consulta x20 and Visita domiciliar x2 of
\* one professional, no ledger entry, 16 points, not eligible.
ExemploConsultaVisita ==
    \E g \in DOMAIN df_summary.linhas :
        /\ df_summary.linhas[g].crit_counts =
              [c \in {"consulta", "visita_domiciliar"} |->
                  IF c = "consulta" THEN 20 ELSE 2]
        /\ df_summary.linhas[g].pontos_negativos = 0
        /\ df_summary.linhas[g].pontos_finais = 16
        /\ df_summary.linhas[g].classificacao = NaoTemDireito

\* C7 (as claimed): no two rows of the list carry the same professional key,
\* so the discounts stored under a key are deducted in at most one row.
C7_OneRowPerKey ==
    \A g1, g2 \in DOMAIN df_summary.linhas :
        df_summary.linhas[g1].profissional_id = df_summary.linhas[g2].profissional_id
            => g1 = g2

\* C8 (as claimed): when a record of the selected period has a negative
\* quantity the build of the list is rejected with an error, and no count of
\* a list row is below the sum of the non-negative quantities of its records.
C8_NegativeRejected ==
    /\ (\E i \in 1..Len(DoPeriodo) : DoPeriodo[i].quantidade < 0) => df_summary.erro
    /\ ~df_summary.erro =>
          \A g \in GruposGravados : \A c \in DOMAIN LinhaDoGrupo(g).crit_counts :
              LinhaDoGrupo(g).crit_counts[c] >=
                  SomaQuantidades({ i \in RegistrosDe(g, c) :
                                      DoPeriodo[i].quantidade >= 0 })

(***************************************************************************)
(* Concurrent sessions: two save_descontos calls for one (key, period) and *)
(* load_descontos calls, each on a connection of its own.                  *)
(*                                                                         *)
(* sqlite3 opens a transaction before the first INSERT of a connection;    *)
(* the INSERT takes the database's write lock, which one connection holds  *)
(* at a time, and waits for it up to the connect() timeout.  Rows written  *)
(* in a transaction are seen by other connections from conn.commit() on.   *)
(* A SELECT with fetchall() runs under a read lock and sees committed rows *)
(* only.                                                                   *)
(***************************************************************************)
Escritores == {"w1", "w2"}
ChaveConc == "3321"
PeriodoConc == "2025-03"

DictsConc ==
    { <<>>,
      << <<"falta_dia", 400>>, <<"falta_meio", 300>> >>,
      << <<"falta_dia", 800>>, <<"falta_meio", 600>> >>,
      << <<"falta_meio", 900>> >> }

TabelasIniciais ==
    { TabelaVazia,
      save_descontos(
          save_descontos(TabelaVazia, ChaveConc, PeriodoConc,
                         << <<"falta_dia", 1200>> >>),
          "ANA", PeriodoConc, << <<"falta_dia", 400>> >>) }

\* A variant in which every INSERT is a transaction of its own (autocommit).
FimDaTransacao_autocommit(its, i) == TRUE

\* conn.commit() comes after the for loop: the transaction the first INSERT
\* opened ends once every item is inserted
FimDaTransacao(its, i) == i > Len(its)

InitConc ==
    /\ descontos \in TabelasIniciais
    /\ inicial = descontos
    /\ itens \in [Escritores -> DictsConc]
    /\ pc = [w \in Escritores |-> "inicio"]
    /\ proximo = [w \in Escritores |-> 1]
    /\ txn = [w \in Escritores |-> TabelaVazia]
    /\ lock = "livre"
    /\ ordem = <<>>
    /\ leituras = {}
    /\ chamadas = <<>>
    /\ IdleClassify
    /\ IdleTier
    /\ IdlePontos
    /\ IdleResumo
    /\ IdleSessao

ForaDeConc == <<chamadas, varsClassify, varsTier, varsPontos, varsResumo, varsSessao>>

\* `if not descontos_dict: return`
Retornar(w) ==
    /\ pc[w] = "inicio"
    /\ itens[w] = <<>>
    /\ pc' = [pc EXCEPT ![w] = "fim"]
    /\ UNCHANGED <<descontos, itens, proximo, txn, lock, inicial, ordem, leituras,
                   ForaDeConc>>

\* one cur.execute("INSERT OR REPLACE ..."): the first of a transaction waits
\* for the write lock and starts from the committed table
Inserir(w) ==
    /\ proximo[w] <= Len(itens[w])
    /\ \/ pc[w] = "inicio" /\ lock = "livre"
       \/ pc[w] = "txn"
    /\ LET base == IF pc[w] = "inicio" THEN descontos ELSE txn[w]
           item == itens[w][proximo[w]]
       IN  txn' = [txn EXCEPT ![w] =
                     InsertOrReplace(base, ChaveConc, PeriodoConc, item[1], item[2])]
    /\ lock' = w
    /\ pc' = [pc EXCEPT ![w] = "txn"]
    /\ proximo' = [proximo EXCEPT ![w] = @ + 1]
    /\ UNCHANGED <<descontos, itens, inicial, ordem, leituras, ForaDeConc>>

\* conn.commit(): the rows of the transaction become the committed table and
\* the write lock is released
Commit(w) ==
    /\ pc[w] = "txn"
    /\ FimDaTransacao(itens[w], proximo[w])
    /\ descontos' = txn[w]
    /\ lock' = "livre"
    /\ pc' = [pc EXCEPT ![w] = IF proximo[w] > Len(itens[w]) THEN "fim" ELSE "inicio"]
    /\ ordem' = IF proximo[w] > Len(itens[w]) THEN Append(ordem, w) ELSE ordem
    /\ UNCHANGED <<itens, proximo, txn, inicial, leituras, ForaDeConc>>

\* the wait for the write lock times out: the first INSERT raises
\* sqlite3.OperationalError, the with block rolls back, nothing is written
Ocupado(w) ==
    /\ pc[w] = "inicio"
    /\ itens[w] # <<>>
    /\ lock \notin {"livre", w}
    /\ pc' = [pc EXCEPT ![w] = "falhou"]
    /\ UNCHANGED <<descontos, itens, proximo, txn, lock, inicial, ordem, leituras,
                   ForaDeConc>>

\* a load_descontos(key, period) call of a third session
Ler ==
    /\ load_descontos(descontos, ChaveConc, PeriodoConc) \notin leituras
    /\ leituras' = leituras \cup { load_descontos(descontos, ChaveConc, PeriodoConc) }
    /\ UNCHANGED <<descontos, pc, itens, proximo, txn, lock, inicial, ordem,
                   ForaDeConc>>

NextConc ==
    \/ \E w \in Escritores : Retornar(w)
    \/ \E w \in Escritores : Inserir(w)
    \/ \E w \in Escritores : Commit(w)
    \/ \E w \in Escritores : Ocupado(w)
    \/ Ler

SpecConc == InitConc /\ [][NextConc]_vars

\* the rows of a table without their rowids
Conteudo(db) ==
    { [ profissional_id |-> r.profissional_id, period |-> r.period,
        campo |-> r.campo, valor |-> r.valor ] : r \in db.rows }

\* the calls ws[1], ws[2], ... run one after the other from table db
RECURSIVE EmSerie(_, _, _)
EmSerie(db, ws, i) ==
    IF i > Len(ws) THEN db
    ELSE EmSerie(save_descontos(db, ChaveConc, PeriodoConc, itens[ws[i]]), ws, i + 1)

\* C9: saves are applied whole.  The committed table is always the result of
\* running, one after the other in commit order, the calls that have
\* committed; once both calls have returned it is the result of one of the
\* two serial orders; and every concurrent load_descontos returned the
\* entries as they stood before or after a whole save.
C9_AtomicSaves ==
    /\ Conteudo(descontos) = Conteudo(EmSerie(inicial, ordem, 1))
    /\ (\A w \in Escritores : pc[w] = "fim") =>
          Conteudo(descontos) \in { Conteudo(EmSerie(inicial, <<"w1", "w2">>, 1)),
                                    Conteudo(EmSerie(inicial, <<"w2", "w1">>, 1)) }
    /\ leituras \subseteq
          { load_descontos(EmSerie(inicial, SubSeq(ordem, 1, n), 1),
                           ChaveConc, PeriodoConc) : n \in 0..Len(ordem) }

\* both calls wrote falta_dia and falta_meio with different values, w2
\* committed before w1, and reads saw the entries before, between and after
C9_Witness ==
    /\ ordem = <<"w2", "w1">>
    /\ itens["w1"] = << <<"falta_dia", 400>>, <<"falta_meio", 300>> >>
    /\ itens["w2"] = << <<"falta_dia", 800>>, <<"falta_meio", 600>> >>
    /\ Cardinality(leituras) = 3
    /\ load_descontos(descontos, ChaveConc, PeriodoConc)
         = [c \in {"falta_dia", "falta_meio"} |-> IF c = "falta_dia" THEN 400 ELSE 300]

(***************************************************************************)
(* The detail view: the records of view_prof, one number_input per         *)
(* negative criterion, "Salvar descontos" and "Voltar"                     *)
(***************************************************************************)
\* WEIGHTS_NEGATIVOS.items(), in the order of the dict literal
CAMPOS_NEGATIVOS ==
    << "falta_meio", "falta_dia", "falta_aso", "falta_injust",
       "nao_especialidade", "nao_uso_sistema", "nao_25_vagas",
       "recusa_atendimento" >>

WEIGHTS_NEGATIVOS ==
    [ falta_meio |-> 300,
      falta_dia |-> 400,
      falta_aso |-> 0,
      falta_injust |-> 1650,
      nao_especialidade |-> 12,
      nao_uso_sistema |-> 210,
      nao_25_vagas |-> 1000,
      recusa_atendimento |-> 1000 ]

\* an elementwise `column == prof_id` of pandas: a missing value equals nothing
PdEq(a, b) == a \notin {PyNone, NaN} /\ b \notin {PyNone, NaN} /\ a = b

\* df_prof: the rows whose id or name equals prof_id, of the period
DfProf(tbl, prof_id, period) ==
    SelectSeq(load_atendimentos(tbl),
              LAMBDA r : /\ (PdEq(r.profissional_id, prof_id)
                             \/ PdEq(r.profissional, prof_id))
                         /\ r.period = period)

\* A variant that shows the stored value itself as the occurrence count.
ContagemInicial_sem_divisao(saved_val, peso) == saved_val

\* initial_count = saved_val // peso if peso and peso > 0 else saved_val
ContagemInicial(saved_val, peso) ==
    IF peso # 0 /\ peso > 0 THEN saved_val \div peso ELSE saved_val

\* the value= of the eight number_inputs when the view is drawn
ContagensIniciais(db, prof_id, period) ==
    LET descontos_salvos == load_descontos(db, prof_id, period) IN
    [ campo \in DOMAIN WEIGHTS_NEGATIVOS |->
        ContagemInicial(Get(descontos_salvos, campo), WEIGHTS_NEGATIVOS[campo]) ]

\* edits: computed_val = int(count) * int(peso) for every campo, in order
Edits(counts) ==
    [ i \in 1..Len(CAMPOS_NEGATIVOS) |->
        << CAMPOS_NEGATIVOS[i],
           counts[CAMPOS_NEGATIVOS[i]] * WEIGHTS_NEGATIVOS[CAMPOS_NEGATIVOS[i]] >> ]

\* the inputs and both buttons are drawn only when df_prof has rows
DetalheVisivel ==
    /\ page = "detalhe"
    /\ Len(DfProf(atendimentos, view_prof, view_period)) > 0

(***************************************************************************)
(* Specification of the detail view: reports are already uploaded, the     *)
(* ledger is empty, and the user opens rows, edits counts, saves and goes  *)
(* back.  A number_input returns its value= unless the user edits it.      *)
(***************************************************************************)
MaxSalvamentos == 2
MaxOcorrencias == 2

Reg(pid, nome, tipo, q, p) ==
    [ profissional_id |-> pid, profissional |-> nome, tipo |-> tipo,
      quantidade |-> q, period |-> p ]

DadosDetalhe ==
    { << Reg("3321", "ANA", TipoPediatria, 20, "2025-03"),
         Reg("77", "BIA", TipoVisita, 2, "2025-03") >>,
      << Reg("", "ANA", TipoConsulta, 20, "2025-03"),
         Reg("3321", "ANA", TipoVisita, 2, "2025-04") >>,
      << Reg(SqlNull, "ANA", TipoConsulta, 20, "2025-03"),
         Reg("77", "BIA", TipoPediatria, 20, "2025-03") >> }

ChavesDetalhe == {"3321", "77", "ANA"}

InitDetalhe ==
    /\ atendimentos \in DadosDetalhe
    /\ selected_period = UltimoPeriodo(atendimentos)
    /\ descontos = TabelaVazia
    /\ df_summary = ListaDoPeriodo(atendimentos, descontos, selected_period)
    /\ page = "lista"
    /\ view_prof = PyNone
    /\ view_period = PyNone
    /\ ultima_acao = "inicio"
    /\ chamadas = <<>>
    /\ IdleClassify
    /\ IdleTier
    /\ IdlePontos
    /\ IdleConc

ForaDeDetalhe == <<chamadas, varsClassify, varsTier, varsPontos, varsConc>>

\* the "Detalhes" button of a list row
Detalhes(g) ==
    /\ g \in DOMAIN df_summary.linhas
    /\ view_prof' = df_summary.linhas[g].profissional_id
    /\ view_period' = selected_period
    /\ page' = "detalhe"
    /\ ultima_acao' = "detalhes"
    /\ UNCHANGED <<descontos, atendimentos, selected_period, df_summary, ForaDeDetalhe>>

\* "Salvar descontos para este profissional" with the counts shown
Salvar(counts, acao) ==
    /\ DetalheVisivel
    /\ descontos.seq < Len(CAMPOS_NEGATIVOS) * MaxSalvamentos
    /\ descontos' = save_descontos(descontos, view_prof, view_period, Edits(counts))
    /\ df_summary' = ListaDoPeriodo(atendimentos, descontos', selected_period)
    /\ ultima_acao' = acao
    /\ UNCHANGED <<atendimentos, selected_period, page, view_prof, view_period,
                   ForaDeDetalhe>>

\* the button pressed with no input touched
SalvarSemEditar ==
    Salvar(ContagensIniciais(descontos, view_prof, view_period), "salvar_sem_editar")

\* the button pressed after one number_input was set to n
SalvarEditado(campo, n) ==
    LET ini == ContagensIniciais(descontos, view_prof, view_period) IN
    /\ n # ini[campo]
    /\ Salvar([ini EXCEPT ![campo] = n], "salvar_editado")

\* the "Voltar" button
Voltar ==
    /\ DetalheVisivel
    /\ page' = "lista"
    /\ ultima_acao' = "voltar"
    /\ UNCHANGED <<descontos, atendimentos, selected_period, df_summary,
                   view_prof, view_period, ForaDeDetalhe>>

NextDetalhe ==
    \/ \E g \in DOMAIN df_summary.linhas : Detalhes(g)
    \/ SalvarSemEditar
    \/ \E campo \in DOMAIN WEIGHTS_NEGATIVOS, n \in 0..MaxOcorrencias :
          SalvarEditado(campo, n)
    \/ Voltar
    \/ \E p \in {"2025-03", "2025-04"} : SelecionarPeriodo(p)

SpecDetalhe == InitDetalhe /\ [][NextDetalhe]_vars

\* every stored value is a non-negative multiple of the weight of its
\* criterion (0 for weight 0), and count * weight gives it back
ValoresSaoMultiplos ==
    \A r \in descontos.rows :
        /\ r.campo \in DOMAIN WEIGHTS_NEGATIVOS
        /\ r.valor >= 0
        /\ IF WEIGHTS_NEGATIVOS[r.campo] = 0 THEN r.valor = 0
           ELSE r.valor % WEIGHTS_NEGATIVOS[r.campo] = 0
        /\ (r.valor \div (IF WEIGHTS_NEGATIVOS[r.campo] > 0
                          THEN WEIGHTS_NEGATIVOS[r.campo] ELSE 1))
             * WEIGHTS_NEGATIVOS[r.campo] = r.valor

\* the step is a save with no input touched
PassoSalvarSemEditar ==
    ultima_acao' = "salvar_sem_editar" /\ descontos' # descontos

\* C10 (as claimed): from an empty ledger written only by the detail view,
\* stored values are non-negative multiples of the weights, and a save with
\* no input touched leaves load_descontos of that (key, period) unchanged.
C10_AsClaimed ==
    /\ []ValoresSaoMultiplos
    /\ [][ PassoSalvarSemEditar =>
             load_descontos(descontos', view_prof, view_period)
               = load_descontos(descontos, view_prof, view_period) ]_vars

\* C10 (amended): from an empty ledger written only by the detail view,
\* stored values are non-negative multiples of the weights (falta_aso is 0)
\* and count * weight gives the stored value back; a save with no input
\* touched leaves the value of every criterion, an absent one read as 0,
\* unchanged for every key and period, and leaves load_descontos of that
\* (key, period) unchanged when it already held entries.
C10_DetailSaves ==
    /\ []ValoresSaoMultiplos
    /\ [][ PassoSalvarSemEditar =>
             /\ \A k \in ChavesDetalhe, p \in {"2025-03", "2025-04"} :
                  \A c \in DOMAIN WEIGHTS_NEGATIVOS :
                     Get(load_descontos(descontos', k, p), c)
                       = Get(load_descontos(descontos, k, p), c)
             /\ load_descontos(descontos, view_prof, view_period) # <<>> =>
                  load_descontos(descontos', view_prof, view_period)
                    = load_descontos(descontos, view_prof, view_period) ]_vars

\* two occurrences of falta_meio were saved, then the view was saved again
\* with no input touched: 600 is still stored, and falta_aso is stored as 0
C10_Witness ==
    /\ ultima_acao = "salvar_sem_editar"
    /\ descontos.seq = 16
    /\ page = "detalhe"
    /\ LET d == load_descontos(descontos, view_prof, view_period) IN
       /\ DOMAIN d = DOMAIN WEIGHTS_NEGATIVOS
       /\ d["falta_meio"] = 600
       /\ d["falta_aso"] = 0

(***************************************************************************)
(* What the detail view computes when it is drawn, before any input is     *)
(* edited, set against the list row it was opened from                     *)
(***************************************************************************)
\* the loop over df_prof.iterrows(): crit_counts after rows i.. of df_prof
RECURSIVE ContarCriteriosDetalhe(_, _, _)
ContarCriteriosDetalhe(df_prof, i, crit_counts) ==
    IF i > Len(df_prof) THEN crit_counts
    ELSE LET crit == map_tipo_para_criterio(df_prof[i].tipo)
             novo == Get(crit_counts, crit) + df_prof[i].quantidade
         IN  ContarCriteriosDetalhe(df_prof, i + 1,
                 [ c \in DOMAIN crit_counts \cup {crit} |->
                     IF c = crit THEN novo ELSE crit_counts[c] ])

\* sum(edits.values())
RECURSIVE SomaEdits(_, _)
SomaEdits(edits, i) ==
    IF i > Len(edits) THEN 0 ELSE edits[i][2] + SomaEdits(edits, i + 1)

\* the detail page for (prof_id, period) with every number_input at its
\* value=: the warning when df_prof is empty, else records and result
DetalheCalculado(tbl, db, prof_id, period) ==
    LET df_prof == DfProf(tbl, prof_id, period)
        crit_counts == ContarCriteriosDetalhe(df_prof, 1, <<>>)
        pontos_pos == calcula_pontos_positivos_from_summary(crit_counts)
        pontos_neg == SomaEdits(Edits(ContagensIniciais(db, prof_id, period)), 1)
        pontos_fin == pontos_pos - pontos_neg
    IN  [ encontrado |-> Len(df_prof) > 0,
          registros |-> df_prof,
          crit_counts |-> crit_counts,
          pontos_positivos |-> pontos_pos,
          pontos_negativos |-> pontos_neg,
          pontos_finais |-> pontos_fin,
          classificacao |-> classify_points(pontos_fin) ]

(***************************************************************************)
(* Specification of list and detail together: the detail-view actions over *)
(* uploads in which one id arrives under one name or under two             *)
(***************************************************************************)
DadosLinha ==
    { << Reg("3321", "ANA", TipoPediatria, 20, "2025-03"),
         Reg("77", "BIA", TipoVisita, 2, "2025-03") >>,
      << Reg("3321", "3321 - ANA", TipoConsulta, 20, "2025-03"),
         Reg("3321", "ANA", TipoVisita, 2, "2025-03") >>,
      << Reg("3321", "ANA", TipoConsulta, 20, "2025-03"),
         Reg("3321", "ANA", TipoVisita, 2, "2025-04") >> }

InitLinha ==
    /\ atendimentos \in DadosLinha
    /\ selected_period = UltimoPeriodo(atendimentos)
    /\ descontos = TabelaVazia
    /\ df_summary = ListaDoPeriodo(atendimentos, descontos, selected_period)
    /\ page = "lista"
    /\ view_prof = PyNone
    /\ view_period = PyNone
    /\ ultima_acao = "inicio"
    /\ chamadas = <<>>
    /\ IdleClassify
    /\ IdleTier
    /\ IdlePontos
    /\ IdleConc

SpecLinha == InitLinha /\ [][NextDetalhe]_vars

\* the loaded records of the selected period in the group of list row g
RegistrosDoGrupo(g) ==
    SelectSeq(FiltrarPeriodo(load_atendimentos(atendimentos), selected_period),
              LAMBDA r : ChaveDoGrupo(r) = g)

\* the open detail view shows the selected period and was opened from row g
AbertoDaLinha(g) ==
    /\ page = "detalhe"
    /\ view_period = selected_period
    /\ g \in DOMAIN df_summary.linhas
    /\ df_summary.linhas[g].profissional_id = view_prof

\* C11: the detail view opened from a list row selects exactly the records
\* of the row's group and computes, before any input is edited, the same
\* criterion counts, positive, negative and final points and tier as the row.
C11_DetailMatchesRow ==
    \A g \in DOMAIN df_summary.linhas :
        AbertoDaLinha(g) =>
            LET linha == df_summary.linhas[g]
                d == DetalheCalculado(atendimentos, descontos, view_prof, view_period)
            IN  /\ d.encontrado
                /\ d.registros = RegistrosDoGrupo(g)
                /\ d.crit_counts = linha.crit_counts
                /\ d.pontos_positivos = linha.pontos_positivos
                /\ d.pontos_negativos = linha.pontos_negativos
                /\ d.pontos_finais = linha.pontos_finais
                /\ d.classificacao = linha.classificacao

\* the same comparison for the rows whose key no other row of the list shares
C11_SoChaveUnica ==
    \A g \in DOMAIN df_summary.linhas :
        (/\ AbertoDaLinha(g)
         /\ \A h \in DOMAIN df_summary.linhas :
               df_summary.linhas[h].profissional_id = view_prof => h = g) =>
            LET linha == df_summary.linhas[g]
                d == DetalheCalculado(atendimentos, descontos, view_prof, view_period)
            IN  /\ d.encontrado
                /\ d.registros = RegistrosDoGrupo(g)
                /\ d.crit_counts = linha.crit_counts
                /\ d.pontos_positivos = linha.pontos_positivos
                /\ d.pontos_negativos = linha.pontos_negativos
                /\ d.pontos_finais = linha.pontos_finais
                /\ d.classificacao = linha.classificacao

====
